---- MODULE Spec2Model ----
(***************************************************************************)
(* Model of app.py: GoogleCalendarClient.create_event and the assistant    *)
(* run loop of OpenAIAssistant (process_function_call, run_assistant),     *)
(* driven against an assistant provider (threads, runs, tool calls) and a  *)
(* calendar provider (events().insert) that act as the environment.        *)
(*                                                                         *)
(* Python values are modelled as follows.  A text is a sequence of string  *)
(* tokens (an f-string is the sequence of its parts).  An optional value   *)
(* is [some |-> FALSE] for None / a missing key and [some |-> TRUE,        *)
(* v |-> x] otherwise.  The result of a call that may raise is a record    *)
(* with a field raised.                                                    *)
(***************************************************************************)
EXTENDS Integers, Sequences, FiniteSets, TLC

VARIABLES
    pc,         \* position of run_assistant: "idle", "create_run", "poll", "list"
    outcome,    \* how the last run_assistant call ended: "none", "returned", "raised"
    ret,        \* value returned by the last run_assistant call that returned
    run,        \* run_assistant's local `run`: index into runs (0: none yet)
    messages,   \* provider: the messages of self.thread, oldest first
    runs,       \* provider: the runs created on self.thread
    nextId,     \* provider: next tool call identifier
    inserts,    \* calendar provider: the insert requests received, in order
    submitted,  \* provider: the tool-output batches received, in order
    processed,  \* history: tool call id -> number of process_function_call calls
    dispatched, \* history: the process_function_call calls of the last poll
    pending,    \* history: the tool calls the last poll saw pending
    insertsAtPoll, \* history: number of insert requests when the last poll began
    lastStatus, \* history: status seen by the last poll of this call ("none")
    nCalls,     \* history: number of run_assistant calls started
    nPolls,     \* history: polls made by the current run_assistant call
    polls,      \* history: polls made by all run_assistant calls
    nSubmits,   \* history: batches submitted by the current run_assistant call
    nReads,     \* history: message-list reads by the current run_assistant call
    postedWhileActive, \* history: a user message was posted while a run was active
    thread,     \* self.thread.id: the thread created at construction
    tokenFile,  \* token.json: None when absent, else the stored session
    creds,      \* GoogleCalendarClient.creds of the running process
    now,        \* the clock session expiry is measured against
    nStarts,    \* history: number of process starts (calls of authenticate)
    nextToken,  \* calendar auth provider: next token it issues
    authAt,     \* history: the clock at the last authenticate call
    loaded,     \* history: the session the last authenticate call loaded
    fileBefore, \* history: token.json before the last authenticate call
    refreshed,  \* history: refresh requests of the last authenticate call
    flowed,     \* history: interactive flows of the last authenticate call
    written,    \* history: token.json writes of the last authenticate call
    authOutcome \* how the last authenticate call ended: "none", "ok", "raised"

vars == <<pc, outcome, ret, run, messages, runs, nextId, inserts, submitted,
          processed, dispatched, pending, insertsAtPoll, lastStatus, nCalls, nPolls, polls, nSubmits,
          nReads, postedWhileActive, thread, tokenFile, creds, now, nStarts,
          nextToken, authAt, loaded, fileBefore, refreshed, flowed, written,
          authOutcome>>

\* what the constructors set up: the thread and the calendar session
setupVars == <<thread, tokenFile, creds, now, nStarts, nextToken, authAt,
               loaded, fileBefore, refreshed, flowed, written, authOutcome>>

-----------------------------------------------------------------------------
(* Bounds of the model *)

MaxCalls == 2       \* run_assistant calls
MaxPolls == 3       \* polls, over all run_assistant calls
MaxToolCalls == 2   \* pending tool calls of one requires_action
MaxIds == 2         \* tool call identifiers the provider hands out
MaxStarts == 2      \* process starts
MaxTime == 3        \* ticks of the clock

-----------------------------------------------------------------------------
(* Python values *)

None == [some |-> FALSE]

Some(x) == [some |-> TRUE, v |-> x]

\* dict.get(key): the value, or None when the key is missing
Get(d, key) == IF key \in DOMAIN d THEN Some(d[key]) ELSE None

RECURSIVE MapEmail(_)
\* [{'email': email} for email in attendees]
MapEmail(s) == IF s = <<>> THEN <<>>
               ELSE <<[email |-> Head(s)]>> \o MapEmail(Tail(s))

-----------------------------------------------------------------------------
(* dateutil.parser.parse and datetime.isoformat.  A datetime is the hour   *)
(* of 2025-01-06 it denotes.  parse accepts several spellings of the same  *)
(* instant and raises ParserError on the others; isoformat writes the one  *)
(* canonical spelling.                                                     *)

Parseable == {"2025-01-06T14:00:00", "Jan 6 2025 2pm",
              "2025-01-06T15:00:00", "2025-01-06 15:00"}

Unparseable == {"next Monday", ""}

parse(timestr) ==
    IF timestr \in {"2025-01-06T14:00:00", "Jan 6 2025 2pm"}
    THEN [raised |-> FALSE, value |-> 14]
    ELSE IF timestr \in {"2025-01-06T15:00:00", "2025-01-06 15:00"}
    THEN [raised |-> FALSE, value |-> 15]
    ELSE IF timestr = ""
    THEN [raised |-> TRUE, exc |-> "String does not contain a date: "]
    ELSE [raised |-> TRUE, exc |-> "Unknown string format: " \o timestr]

isoformat(dt) == "2025-01-06T" \o ToString(dt) \o ":00:00"

-----------------------------------------------------------------------------
(* GoogleCalendarClient.create_event *)

TIMEZONE == "UTC"

\* Python truthiness of the attendees argument: None and [] are false
Truthy(attendees) == attendees.some /\ attendees.v # <<>>

\* 'attendees': [{'email': email} for email in attendees] if attendees else []
AttendeeList(attendees) ==
    IF Truthy(attendees) THEN MapEmail(attendees.v) ELSE <<>>

\* sendUpdates chosen by `attendees is not None` instead of truthiness
SendUpdatesIfNotNone(attendees) == IF attendees.some THEN "all" ELSE "none"

\* sendUpdates='all' if attendees else 'none'
SendUpdates(attendees) == IF Truthy(attendees) THEN "all" ELSE "none"

\* the insert request create_event builds
InsertRequest(summary, start_time, end_time, attendees, description) ==
    [calendarId |-> "primary",
     body |-> [summary |-> summary,
               description |-> description,
               start |-> [dateTime |-> start_time, timeZone |-> TIMEZONE],
               end |-> [dateTime |-> end_time, timeZone |-> TIMEZONE],
               attendees |-> AttendeeList(attendees)],
     sendUpdates |-> SendUpdates(attendees)]

\* The calendar provider rejects an event whose time range is empty or
\* reversed (HttpError), and accepts every other request.
Rejected(request) ==
    request.body.start.dateTime = request.body.end.dateTime
    \/ (request.body.start.dateTime = isoformat(15)
        /\ request.body.end.dateTime = isoformat(14))

\* a rejected request is sent a second time before the error is raised
ExecuteWithRetry(request, attendees, ins) ==
    IF Rejected(request)
    THEN [raised |-> TRUE, exc |-> "HttpError 400",
          inserts |-> ins \o <<[request |-> request, ok |-> FALSE,
                                attendees |-> attendees],
                               [request |-> request, ok |-> FALSE,
                                attendees |-> attendees]>>]
    ELSE [raised |-> FALSE,
          value |-> [htmlLink |-> "https://calendar/event/"
                                      \o ToString(Len(ins) + 1)],
          inserts |-> Append(ins, [request |-> request, ok |-> TRUE,
                                   attendees |-> attendees])]

\* .execute(): the provider records the request and answers with the created
\* event (which carries its link), or raises.  Each entry of the log also
\* keeps the attendees argument create_event was called with.
Execute(request, attendees, ins) ==
    IF Rejected(request)
    THEN [raised |-> TRUE, exc |-> "HttpError 400",
          inserts |-> Append(ins, [request |-> request, ok |-> FALSE,
                                   attendees |-> attendees])]
    ELSE [raised |-> FALSE,
          value |-> [htmlLink |-> "https://calendar/event/"
                                      \o ToString(Len(ins) + 1)],
          inserts |-> Append(ins, [request |-> request, ok |-> TRUE,
                                   attendees |-> attendees])]

create_event(ins, summary, start_time, end_time, attendees, description) ==
    Execute(InsertRequest(summary, start_time, end_time, attendees, description),
            attendees, ins)

-----------------------------------------------------------------------------
(* GoogleCalendarClient.authenticate.  A session (Credentials) is          *)
(* [token, expiry, refresh_token], each 0 for None.  The result of         *)
(* authenticate is [raised, creds, file, refreshed, flowed, written]: the  *)
(* session of the client, token.json after the call, and what the call     *)
(* did.                                                                    *)

\* Credentials.expired: a session without expiry never expires
expired(c, t) == c.expiry # 0 /\ c.expiry <= t

\* Credentials.valid
valid(c, t) == c.token # 0 /\ ~expired(c, t)

\* if os.path.exists('token.json'):
\*     self.creds = Credentials.from_authorized_user_file('token.json', SCOPES)
LoadToken(file) == IF file.some THEN Some(file.v) ELSE None

\* if not self.creds or not self.creds.valid
NeedsAuth(c, t) == ~c.some \/ ~valid(c.v, t)

\* the refresh branch taken for a session that has not expired
CanRefreshUnlessExpired(c, t) ==
    c.some /\ ~expired(c.v, t) /\ c.v.refresh_token # 0

\* if self.creds and self.creds.expired and self.creds.refresh_token
CanRefresh(c, t) == c.some /\ expired(c.v, t) /\ c.v.refresh_token # 0

\* with open('token.json', 'w') as token: token.write(self.creds.to_json())
WriteToken(r) == [r EXCEPT !.file = r.creds, !.written = r.written + 1]

\* self.creds.refresh(Request()): a new token for the same refresh token, or
\* RefreshError
Refresh(c, file, t, fresh, ok) ==
    IF ok
    THEN WriteToken([raised |-> FALSE,
                     creds |-> Some([c.v EXCEPT !.token = fresh,
                                                !.expiry = t + 1]),
                     file |-> file, refreshed |-> 1, flowed |-> 0,
                     written |-> 0])
    ELSE [raised |-> TRUE, creds |-> c, file |-> file, refreshed |-> 1,
          flowed |-> 0, written |-> 0]

\* flow = InstalledAppFlow.from_client_secrets_file(...)
\* self.creds = flow.run_local_server(port=0): a new session, with or without
\* a refresh token, or an error (no credentials file, consent refused)
RunFlow(c, file, t, fresh, ok, offline) ==
    IF ok
    THEN WriteToken([raised |-> FALSE,
                     creds |-> Some([token |-> fresh, expiry |-> t + 1,
                                     refresh_token |->
                                         IF offline THEN fresh ELSE 0]),
                     file |-> file, refreshed |-> 0, flowed |-> 1,
                     written |-> 0])
    ELSE [raised |-> TRUE, creds |-> c, file |-> file, refreshed |-> 0,
          flowed |-> 1, written |-> 0]

\* a loaded session that is valid is written back all the same
KeepAndWrite(c, file) ==
    WriteToken([raised |-> FALSE, creds |-> c, file |-> file,
                refreshed |-> 0, flowed |-> 0, written |-> 0])

\* the loaded session is valid: nothing to do before build(...)
Keep(c, file) ==
    [raised |-> FALSE, creds |-> c, file |-> file, refreshed |-> 0,
     flowed |-> 0, written |-> 0]

authenticate(file, t, fresh, refreshOk, flowOk, offline) ==
    LET c == LoadToken(file) IN
    IF NeedsAuth(c, t)
    THEN IF CanRefresh(c, t)
         THEN Refresh(c, file, t, fresh, refreshOk)
         ELSE RunFlow(c, file, t, fresh, flowOk, offline)
    ELSE Keep(c, file)

-----------------------------------------------------------------------------
(* Tool calls.  The arguments of a tool call are a text; json.loads turns  *)
(* it into a value or raises JSONDecodeError.  A decoded value is          *)
(* [type |-> "array"] or [type |-> "object", obj |-> the dict].            *)

KnownFunction == "create_google_calendar_event"

FunctionNames == {KnownFunction, "delete_google_calendar_event"}

Attendees2 == <<"alice@example.com", "bob@example.com">>

\* the argument texts the assistant may produce
NotJson == [valid |-> FALSE, text |-> "{summary: "]

JsonArray == [valid |-> TRUE, value |-> [type |-> "array"]]

JsonObject(d) == [valid |-> TRUE, value |-> [type |-> "object", obj |-> d]]

ObjectPayloads ==
    { JsonObject([summary |-> "Sync", start_time |-> "Jan 6 2025 2pm",
                  end_time |-> "2025-01-06T15:00:00"]),
      JsonObject([summary |-> "Team meeting", start_time |-> "2025-01-06T14:00:00",
                  end_time |-> "2025-01-06 15:00", attendees |-> Attendees2,
                  description |-> "weekly"]),
      JsonObject([summary |-> "Sync", start_time |-> "2025-01-06T14:00:00",
                  end_time |-> "2025-01-06T15:00:00", attendees |-> <<>>]),
      JsonObject([summary |-> "Sync", start_time |-> "next Monday",
                  end_time |-> "2025-01-06T15:00:00"]),
      JsonObject([summary |-> "Sync", start_time |-> "2025-01-06T14:00:00",
                  end_time |-> ""]),
      JsonObject([summary |-> "Sync", start_time |-> "2025-01-06T14:00:00"]),
      JsonObject([summary |-> "Sync", end_time |-> "2025-01-06T15:00:00"]),
      JsonObject([start_time |-> "2025-01-06T14:00:00",
                  end_time |-> "2025-01-06T15:00:00"]),
      JsonObject([summary |-> "Sync", start_time |-> "2025-01-06T15:00:00",
                  end_time |-> "Jan 6 2025 2pm", attendees |-> Attendees2]) }

Payloads == {NotJson, JsonArray} \cup ObjectPayloads

\* the (name, arguments) pairs the assistant may ask for
Requests == [name : FunctionNames, arguments : Payloads]

\* the requests the run-loop specification draws from: arguments that are
\* not JSON, a well-formed event, and a function the orchestrator lacks
LoopRequests ==
    { [name |-> KnownFunction, arguments |-> NotJson],
      [name |-> KnownFunction,
       arguments |-> JsonObject([summary |-> "Sync",
                                 start_time |-> "Jan 6 2025 2pm",
                                 end_time |-> "2025-01-06T15:00:00"])],
      [name |-> "delete_google_calendar_event",
       arguments |-> JsonObject([summary |-> "Sync",
                                 start_time |-> "Jan 6 2025 2pm",
                                 end_time |-> "2025-01-06T15:00:00"])] }

json_loads(text) ==
    IF text.valid
    THEN [raised |-> FALSE, value |-> text.value]
    ELSE [raised |-> TRUE, exc |-> "JSONDecodeError"]

\* arguments[key]: KeyError on a missing key, TypeError on a non-dict
Subscript(arguments, key) ==
    IF arguments.type # "object"
    THEN [raised |-> TRUE,
          exc |-> "list indices must be integers or slices, not str"]
    ELSE IF key \notin DOMAIN arguments.obj
         THEN [raised |-> TRUE, exc |-> "'" \o key \o "'"]
         ELSE [raised |-> FALSE, value |-> arguments.obj[key]]

\* parse(arguments[key]).isoformat()
Normalize(arguments, key) ==
    LET s == Subscript(arguments, key) IN
    IF s.raised THEN s
    ELSE LET d == parse(s.value) IN
         IF d.raised THEN d
         ELSE [raised |-> FALSE, value |-> isoformat(d.value)]

-----------------------------------------------------------------------------
(* OpenAIAssistant.process_function_call.  Its result is                   *)
(* [raised, exc, output, inserts]: whether an exception left the method    *)
(* and which, the text it returned otherwise, and the calendar provider's  *)
(* request log after the call.                                             *)

Return(output, ins) ==
    [raised |-> FALSE, exc |-> "", output |-> output, inserts |-> ins]

Raise(exc, ins) ==
    [raised |-> TRUE, exc |-> exc, output |-> <<>>, inserts |-> ins]

\* an except clause that lets the exception go on
ExceptReraise(e, ins) == Raise(e, ins)

\* except Exception as e: return f"Error creating event: {str(e)}"
Except(e, ins) == Return(<<"Error creating event: ", e>>, ins)

\* the try block: normalize both timestamps, create the event, report its link
TryCreateEvent(arguments, ins) ==
    LET start_time == Normalize(arguments, "start_time")
        end_time == Normalize(arguments, "end_time")
        summary == Subscript(arguments, "summary")
        event == create_event(ins, summary.value, start_time.value,
                              end_time.value,
                              Get(arguments.obj, "attendees"),
                              Get(arguments.obj, "description"))
    IN  IF start_time.raised THEN Except(start_time.exc, ins)
        ELSE IF end_time.raised THEN Except(end_time.exc, ins)
        ELSE IF summary.raised THEN Except(summary.exc, ins)
        ELSE IF event.raised THEN Except(event.exc, event.inserts)
        ELSE Return(<<"Event created: ", event.value.htmlLink>>, event.inserts)

process_function_call(tool_call, ins) ==
    LET function_name == tool_call.function.name
        arguments == json_loads(tool_call.function.arguments)
    IN  IF arguments.raised
        THEN Raise(arguments.exc, ins)
        ELSE IF function_name = KnownFunction
             THEN TryCreateEvent(arguments.value, ins)
             ELSE Return(<<"Unknown function called">>, ins)

-----------------------------------------------------------------------------
(* The for loop of run_assistant over the pending tool calls.  Its state   *)
(* is [raised, tool_outputs, inserts, processed, dispatched]; an exception *)
(* leaving process_function_call ends the loop and leaves run_assistant.   *)

\* an empty list of pending calls replaced by one default event request
ToolCallsOrDefault(run_status) ==
    IF run_status.tool_calls = <<>>
    THEN <<[id |-> 1,
            function |-> [name |-> KnownFunction,
                          arguments |->
                              JsonObject([summary |-> "Sync",
                                          start_time |-> "Jan 6 2025 2pm",
                                          end_time |-> "2025-01-06T15:00:00"])]]>>
    ELSE run_status.tool_calls

\* run_status.required_action.submit_tool_outputs.tool_calls
ToolCalls(run_status) == run_status.tool_calls

Bump(proc, id) == [proc EXCEPT ![id] = @ + 1]

RECURSIVE ForEachToolCall(_, _)
ForEachToolCall(tool_calls, st) ==
    IF tool_calls = <<>> \/ st.raised
    THEN st
    ELSE LET tool_call == Head(tool_calls)
             r == process_function_call(tool_call, st.inserts)
         IN  ForEachToolCall(Tail(tool_calls),
                 [raised |-> r.raised,
                  tool_outputs |->
                      IF r.raised THEN st.tool_outputs
                      ELSE Append(st.tool_outputs,
                                  [tool_call_id |-> tool_call.id,
                                   output |-> r.output]),
                  inserts |-> r.inserts,
                  processed |-> Bump(st.processed, tool_call.id),
                  dispatched |-> Append(st.dispatched,
                                        [tool_call |-> tool_call,
                                         raised |-> r.raised,
                                         output |-> r.output,
                                         before |-> Len(st.inserts),
                                         after |-> Len(r.inserts)])])

-----------------------------------------------------------------------------
(* The assistant provider: one thread, its messages and its runs.          *)

\* the statuses in which the provider ends a run without a reply
RunFailures == {"failed", "cancelled", "expired"}

TerminalStatuses == {"completed"} \cup RunFailures

Statuses == {"queued", "in_progress", "requires_action"} \cup TerminalStatuses

Active(r) == runs[r].status \notin TerminalStatuses

UserInputs == { <<"Schedule a team meeting next Monday at 2 PM">> }

RECURSIVE Reverse(_)
Reverse(s) == IF s = <<>> THEN <<>> ELSE Append(Reverse(Tail(s)), Head(s))

\* the thread's messages listed oldest first (order='asc')
ListAscending(msgs) == msgs

\* messages.list(thread_id): the thread's messages, newest first
List(msgs) == Reverse(msgs)

\* messages.data[0].content[0].text.value
FirstText(data) == data[1].content

RECURSIVE WithIds(_, _)
\* the provider numbers the tool calls it asks for
WithIds(reqs, first) ==
    IF reqs = <<>> THEN <<>>
    ELSE <<[id |-> first, function |-> Head(reqs)]>>
         \o WithIds(Tail(reqs), first + 1)

RequestLists == UNION { [1..n -> LoopRequests] : n \in 0..MaxToolCalls }

DispatchLists == UNION { [1..n -> Requests] : n \in 1..MaxToolCalls }

Init ==
    /\ pc = "idle"
    /\ outcome = "none"
    /\ ret = <<>>
    /\ run = 0
    /\ messages = <<>>
    /\ runs = <<>>
    /\ nextId = 1
    /\ inserts = <<>>
    /\ submitted = <<>>
    /\ processed = [i \in 1..MaxIds |-> 0]
    /\ dispatched = <<>>
    /\ pending = <<>>
    /\ insertsAtPoll = 0
    /\ lastStatus = "none"
    /\ nCalls = 0
    /\ nPolls = 0
    /\ polls = 0
    /\ nSubmits = 0
    /\ nReads = 0
    /\ postedWhileActive = FALSE
    /\ thread = 1
    /\ tokenFile = Some([token |-> 1, expiry |-> 2, refresh_token |-> 1])
    /\ creds = tokenFile
    /\ now = 1
    /\ nStarts = 1
    /\ nextToken = 2
    /\ authAt = 1
    /\ loaded = tokenFile
    /\ fileBefore = tokenFile
    /\ refreshed = 0
    /\ flowed = 0
    /\ written = 0
    /\ authOutcome = "ok"

orchestratorVars == <<pc, outcome, ret, run, inserts, submitted, processed,
                      dispatched, pending, insertsAtPoll, lastStatus, nCalls, nPolls, polls, nSubmits,
                      nReads, postedWhileActive, setupVars>>

\* the run leaves the queue
ProviderStart(r) ==
    /\ runs[r].status = "queued"
    /\ runs' = [runs EXCEPT ![r].status = "in_progress"]
    /\ UNCHANGED <<messages, nextId>>
    /\ UNCHANGED orchestratorVars

\* the assistant asks for tool calls
ProviderRequireAction(r, reqs) ==
    /\ runs[r].status = "in_progress"
    /\ nextId + Len(reqs) - 1 <= MaxIds
    /\ runs' = [runs EXCEPT ![r] = [thread_id |-> runs[r].thread_id,
                                    status |-> "requires_action",
                                    tool_calls |-> WithIds(reqs, nextId),
                                    answered |-> FALSE]]
    /\ nextId' = nextId + Len(reqs)
    /\ UNCHANGED messages
    /\ UNCHANGED orchestratorVars

\* the provider takes the submitted tool outputs and queues the run again
ProviderResume(r) ==
    /\ runs[r].status = "requires_action"
    /\ runs[r].answered
    /\ runs' = [runs EXCEPT ![r] = [thread_id |-> runs[r].thread_id,
                                    status |-> "queued", tool_calls |-> <<>>,
                                    answered |-> FALSE]]
    /\ UNCHANGED <<messages, nextId>>
    /\ UNCHANGED orchestratorVars

\* the assistant writes its reply and the run completes
ProviderComplete(r) ==
    /\ runs[r].status = "in_progress"
    /\ runs' = [runs EXCEPT ![r].status = "completed"]
    /\ messages' = Append(messages,
                          [thread_id |-> runs[r].thread_id,
                           role |-> "assistant",
                           content |-> <<"Reply of run ", ToString(r)>>])
    /\ UNCHANGED nextId
    /\ UNCHANGED orchestratorVars

\* the run fails, is cancelled or expires
ProviderFail(r, status) ==
    /\ Active(r)
    /\ runs' = [runs EXCEPT ![r] = [thread_id |-> runs[r].thread_id,
                                    status |-> status, tool_calls |-> <<>>,
                                    answered |-> FALSE]]
    /\ UNCHANGED <<messages, nextId>>
    /\ UNCHANGED orchestratorVars

-----------------------------------------------------------------------------
(* OpenAIAssistant.run_assistant, one action per provider call it makes.   *)

providerVars == <<messages, runs, nextId>>

\* a thread of its own for every run_assistant call
ThreadPerCall == nCalls + 1

\* thread_id=self.thread.id
ThreadId == thread

\* threads.messages.create(thread_id, role="user", content=user_input)
CreateMessage(user_input) ==
    /\ pc = "idle"
    /\ nCalls < MaxCalls
    /\ messages' = Append(messages, [thread_id |-> ThreadId, role |-> "user",
                                   content |-> user_input])
    /\ pc' = "create_run"
    /\ outcome' = "none"
    /\ ret' = <<>>
    /\ nCalls' = nCalls + 1
    /\ nPolls' = 0
    /\ nSubmits' = 0
    /\ nReads' = 0
    /\ lastStatus' = "none"
    /\ dispatched' = <<>>
    /\ pending' = <<>>
    /\ UNCHANGED insertsAtPoll
    /\ postedWhileActive' =
           (postedWhileActive \/ \E r \in 1..Len(runs) : Active(r))
    /\ UNCHANGED <<run, runs, nextId, inserts, submitted, processed, polls>>
    /\ UNCHANGED setupVars

\* run = threads.runs.create(thread_id, assistant_id)
CreateRun ==
    /\ pc = "create_run"
    /\ runs' = Append(runs, [thread_id |-> ThreadId, status |-> "queued",
                             tool_calls |-> <<>>, answered |-> FALSE])
    /\ run' = Len(runs) + 1
    /\ pc' = "poll"
    /\ UNCHANGED <<outcome, ret, messages, nextId, inserts, submitted,
                   processed, dispatched, pending, insertsAtPoll, lastStatus,
                   nCalls, nPolls, polls, nSubmits, nReads,
                   postedWhileActive>>
    /\ UNCHANGED setupVars

\* the list a run that cannot be resumed is tested against, with 'queued' added
FailedStatusesAndQueued == {"failed", "cancelled", "expired", "queued"}

\* the list a run that cannot be resumed is tested against, without 'expired'
FailedStatusesNoExpired == {"failed", "cancelled"}

\* ['failed', 'cancelled', 'expired']
FailedStatuses == {"failed", "cancelled", "expired"}

\* run_status = threads.runs.retrieve(thread_id, run_id=run.id)
Retrieve == runs[run]

\* one more turn of `while True`, which starts by retrieving the run
Polling ==
    /\ pc = "poll"
    /\ polls < MaxPolls
    /\ polls' = polls + 1
    /\ nPolls' = nPolls + 1
    /\ lastStatus' = Retrieve.status
    /\ pending' = IF Retrieve.status = "requires_action"
                  THEN Retrieve.tool_calls ELSE <<>>
    /\ insertsAtPoll' = Len(inserts)
    /\ UNCHANGED setupVars

\* if run_status.status == 'completed': break
PollCompleted ==
    /\ Polling
    /\ LET run_status == Retrieve IN
        /\ run_status.status = "completed"
        /\ pc' = "list"
        /\ dispatched' = <<>>
        /\ UNCHANGED <<outcome, ret, run, inserts, submitted, processed,
                       nCalls, nSubmits, nReads, postedWhileActive>>
        /\ UNCHANGED providerVars

\* elif run_status.status == 'requires_action': process every pending tool
\* call and submit the outputs in one batch
PollRequiresAction ==
    /\ Polling
    /\ LET run_status == Retrieve IN
        /\ run_status.status = "requires_action"
        /\ LET st == ForEachToolCall(ToolCalls(run_status),
                         [raised |-> FALSE, tool_outputs |-> <<>>,
                          inserts |-> inserts, processed |-> processed,
                          dispatched |-> <<>>])
           IN  /\ inserts' = st.inserts
               /\ processed' = st.processed
               /\ dispatched' = st.dispatched
               /\ IF st.raised
                  THEN /\ pc' = "idle"
                       /\ outcome' = "raised"
                       /\ UNCHANGED <<submitted, runs, nSubmits>>
                  ELSE /\ pc' = "poll"
                       /\ outcome' = outcome
                       /\ submitted' =
                              Append(submitted,
                                     [run_id |-> run,
                                      tool_outputs |-> st.tool_outputs,
                                      poll |-> polls + 1])
                       /\ runs' = [runs EXCEPT ![run].answered = TRUE]
                       /\ nSubmits' = nSubmits + 1
        /\ UNCHANGED <<ret, run, messages, nextId, nCalls, nReads,
                       postedWhileActive>>

\* elif run_status.status in ['failed', 'cancelled', 'expired']:
\*     return "Run failed"
PollFailed ==
    /\ Polling
    /\ LET run_status == Retrieve IN
        /\ run_status.status \in FailedStatuses
        /\ pc' = "idle"
        /\ outcome' = "returned"
        /\ ret' = <<"Run failed">>
        /\ dispatched' = <<>>
        /\ UNCHANGED <<run, inserts, submitted, processed, nCalls, nSubmits,
                       nReads, postedWhileActive>>
        /\ UNCHANGED providerVars

\* any other status: the loop polls again
PollOther ==
    /\ Polling
    /\ LET run_status == Retrieve IN
        /\ run_status.status \notin
               {"completed", "requires_action"} \cup FailedStatuses
        /\ dispatched' = <<>>
        /\ UNCHANGED <<pc, outcome, ret, run, inserts, submitted, processed,
                       nCalls, nSubmits, nReads, postedWhileActive>>
        /\ UNCHANGED providerVars

\* messages = threads.messages.list(thread_id)
\* return messages.data[0].content[0].text.value
ListMessages ==
    /\ pc = "list"
    /\ ret' = FirstText(List(messages))
    /\ nReads' = nReads + 1
    /\ pc' = "idle"
    /\ outcome' = "returned"
    /\ UNCHANGED <<run, inserts, submitted, processed, dispatched, pending,
                   insertsAtPoll, lastStatus, nCalls, nPolls, polls,
                   nSubmits, postedWhileActive>>
    /\ UNCHANGED providerVars
    /\ UNCHANGED setupVars

Next ==
    \/ \E user_input \in UserInputs : CreateMessage(user_input)
    \/ CreateRun
    \/ PollCompleted
    \/ PollRequiresAction
    \/ PollFailed
    \/ PollOther
    \/ ListMessages
    \/ \E r \in 1..Len(runs) : ProviderStart(r)
    \/ \E r \in 1..Len(runs) :
           \E reqs \in RequestLists : ProviderRequireAction(r, reqs)
    \/ \E r \in 1..Len(runs) : ProviderResume(r)
    \/ \E r \in 1..Len(runs) : ProviderComplete(r)
    \/ \E r \in 1..Len(runs) :
           \E status \in RunFailures : ProviderFail(r, status)

Spec == Init /\ [][Next]_vars

\* run_assistant is sequential code that blocks on nothing but the provider's
\* answers: after the message the run is created, while it is in the loop
\* the next poll happens, and after the break the list read happens.
SpecFair ==
    /\ Spec
    /\ WF_vars(CreateRun)
    /\ WF_vars(PollCompleted \/ PollRequiresAction \/ PollFailed \/ PollOther)
    /\ WF_vars(ListMessages)

-----------------------------------------------------------------------------
(* process_function_call and create_event on their inputs: run_assistant   *)
(* has posted the message and created the run, the assistant has asked    *)
(* for any list of tool calls, and the loop handles it.                    *)

DispatchInit ==
    \E reqs \in DispatchLists, user_input \in UserInputs :
        /\ Len(reqs) <= MaxIds
        /\ pc = "poll"
        /\ outcome = "none"
        /\ ret = <<>>
        /\ run = 1
        /\ messages = <<[thread_id |-> 1, role |-> "user",
                         content |-> user_input]>>
        /\ runs = <<[thread_id |-> 1, status |-> "requires_action",
                     tool_calls |-> WithIds(reqs, 1),
                     answered |-> FALSE]>>
        /\ nextId = Len(reqs) + 1
        /\ inserts = <<>>
        /\ submitted = <<>>
        /\ processed = [i \in 1..MaxIds |-> 0]
        /\ dispatched = <<>>
        /\ pending = <<>>
        /\ insertsAtPoll = 0
        /\ lastStatus = "none"
        /\ nCalls = 1
        /\ nPolls = 0
        /\ polls = 0
        /\ nSubmits = 0
        /\ nReads = 0
        /\ postedWhileActive = FALSE
        /\ thread = 1
        /\ tokenFile = Some([token |-> 1, expiry |-> 2, refresh_token |-> 1])
        /\ creds = tokenFile
        /\ now = 1
        /\ nStarts = 1
        /\ nextToken = 2
        /\ authAt = 1
        /\ loaded = tokenFile
        /\ fileBefore = tokenFile
        /\ refreshed = 0
        /\ flowed = 0
        /\ written = 0
        /\ authOutcome = "ok"

DispatchNext == PollRequiresAction

SpecDispatch == DispatchInit /\ [][DispatchNext]_vars

-----------------------------------------------------------------------------
(* authenticate on its inputs: token.json is absent or holds any session,  *)
(* the process is started (GoogleCalendarClient.__init__ calls             *)
(* authenticate), time passes, and the process is started again.           *)

Sessions == [token : 0..1, expiry : 0..2, refresh_token : 0..1]

loopVars == <<pc, outcome, ret, run, messages, runs, nextId, inserts,
              submitted, processed, dispatched, pending, insertsAtPoll,
              lastStatus, nCalls, nPolls, polls, nSubmits, nReads,
              postedWhileActive, thread>>

AuthInit ==
    /\ tokenFile \in {None} \cup { Some(c) : c \in Sessions }
    /\ creds = None
    /\ now = 1
    /\ nStarts = 0
    /\ nextToken = 2
    /\ authAt = 0
    /\ loaded = None
    /\ fileBefore = None
    /\ refreshed = 0
    /\ flowed = 0
    /\ written = 0
    /\ authOutcome = "none"
    /\ thread = 1
    /\ pc = "idle"
    /\ outcome = "none"
    /\ ret = <<>>
    /\ run = 0
    /\ messages = <<>>
    /\ runs = <<>>
    /\ nextId = 1
    /\ inserts = <<>>
    /\ submitted = <<>>
    /\ processed = [i \in 1..MaxIds |-> 0]
    /\ dispatched = <<>>
    /\ pending = <<>>
    /\ insertsAtPoll = 0
    /\ lastStatus = "none"
    /\ nCalls = 0
    /\ nPolls = 0
    /\ polls = 0
    /\ nSubmits = 0
    /\ nReads = 0
    /\ postedWhileActive = FALSE

\* GoogleCalendarClient.__init__: self.creds = None;
\* self.service = self.authenticate()
Start(refreshOk, flowOk, offline) ==
    /\ nStarts < MaxStarts
    /\ LET r == authenticate(tokenFile, now, nextToken, refreshOk, flowOk,
                             offline)
       IN  /\ creds' = r.creds
           /\ tokenFile' = r.file
           /\ refreshed' = r.refreshed
           /\ flowed' = r.flowed
           /\ written' = r.written
           /\ authOutcome' = IF r.raised THEN "raised" ELSE "ok"
           /\ nextToken' = IF r.raised \/ r.written = 0
                           THEN nextToken ELSE nextToken + 1
    /\ loaded' = LoadToken(tokenFile)
    /\ fileBefore' = tokenFile
    /\ authAt' = now
    /\ nStarts' = nStarts + 1
    /\ UNCHANGED now
    /\ UNCHANGED loopVars

\* time passes
Tick ==
    /\ now < MaxTime
    /\ now' = now + 1
    /\ UNCHANGED <<tokenFile, creds, nStarts, nextToken, authAt, loaded,
                   fileBefore, refreshed, flowed, written, authOutcome>>
    /\ UNCHANGED loopVars

AuthNext ==
    \/ \E refreshOk, flowOk, offline \in BOOLEAN :
           Start(refreshOk, flowOk, offline)
    \/ Tick

SpecAuth == AuthInit /\ [][AuthNext]_vars

-----------------------------------------------------------------------------
(* Claims about process_function_call and create_event, checked under      *)
(* SpecDispatch.                                                           *)

IsKnown(d) == d.tool_call.function.name = "create_google_calendar_event"

IsJson(d) == d.tool_call.function.arguments.valid

\* the decoded arguments lack a start_time or end_time that can be parsed
BadTimes(d) ==
    LET v == d.tool_call.function.arguments.value IN
    \/ v.type # "object"
    \/ "start_time" \notin DOMAIN v.obj
    \/ "end_time" \notin DOMAIN v.obj
    \/ v.obj["start_time"] \in Unparseable
    \/ v.obj["end_time"] \in Unparseable

\* C1: every process_function_call call, whatever the function name and the
\* argument text (a text that is not JSON included), returns a text and lets
\* no exception reach the run loop, so no run_assistant call is aborted by
\* tool dispatch.
C1_NoExceptionFromDispatch ==
    /\ \A i \in DOMAIN dispatched :
           ~dispatched[i].raised /\ dispatched[i].output # <<>>
    /\ outcome # "raised"

\* C2: every tool call whose function name is not
\* create_google_calendar_event returns exactly "Unknown function called",
\* whatever its arguments.
C2_UnknownFunctionByNameAlone ==
    \A i \in DOMAIN dispatched :
        ~IsKnown(dispatched[i]) =>
            /\ ~dispatched[i].raised
            /\ dispatched[i].output = <<"Unknown function called">>

\* C3: a create_google_calendar_event call whose decoded arguments have a
\* start_time or end_time that is missing or cannot be parsed returns a text
\* that starts with "Error creating event:" and does not raise.
C3_BadTimestampIsErrorString ==
    \A i \in DOMAIN dispatched :
        (IsKnown(dispatched[i]) /\ IsJson(dispatched[i])
         /\ BadTimes(dispatched[i])) =>
            /\ ~dispatched[i].raised
            /\ Len(dispatched[i].output) = 2
            /\ Head(dispatched[i].output) = "Error creating event: "

\* a call with an unparseable start_time and one with a missing end_time have
\* both been answered with the error text
C3_Witness ==
    /\ Len(dispatched) = 2
    /\ \A i \in 1..2 : IsKnown(dispatched[i]) /\ IsJson(dispatched[i])
    /\ dispatched[1].tool_call.function.arguments.value.type = "object"
    /\ dispatched[2].tool_call.function.arguments.value.type = "object"
    /\ "start_time" \in DOMAIN dispatched[1].tool_call.function.arguments.value.obj
    /\ dispatched[1].tool_call.function.arguments.value.obj["start_time"]
           = "next Monday"
    /\ "end_time" \notin DOMAIN dispatched[2].tool_call.function.arguments.value.obj
    /\ \A i \in 1..2 : Head(dispatched[i].output) = "Error creating event: "

\* C9: create_event asks for notifications to all parties exactly when its
\* attendees argument is a non-empty list; when the argument is None or
\* empty the request carries an empty attendee list and sendUpdates 'none'.
C9_SendUpdatesIffAttendees ==
    \A i \in DOMAIN inserts :
        LET a == inserts[i].attendees
            present == a.some /\ Len(a.v) > 0
            request == inserts[i].request
        IN  /\ request.sendUpdates = "all" <=> present
            /\ ~present => /\ request.body.attendees = <<>>
                           /\ request.sendUpdates = "none"
            /\ present => /\ Len(request.body.attendees) = Len(a.v)
                          /\ \A k \in DOMAIN a.v :
                                 request.body.attendees[k].email = a.v[k]

\* one event was requested without attendees and one with two of them
C9_Witness ==
    /\ Len(inserts) = 2
    /\ ~inserts[1].attendees.some
    /\ inserts[1].request.sendUpdates = "none"
    /\ inserts[1].request.body.attendees = <<>>
    /\ inserts[2].attendees.some
    /\ Len(inserts[2].attendees.v) = 2
    /\ inserts[2].request.sendUpdates = "all"

-----------------------------------------------------------------------------
(* Claims about the run loop, checked under Spec.                          *)

\* the batches submitted while handling the last poll's observation
Answer == SelectSeq(submitted, LAMBDA b : b.poll = polls)

\* C4: a user message is posted on the thread only when every run created
\* before it is in a terminal status, over any sequence of run_assistant
\* calls, those ended by an exception included.
C4_NoMessageWhileRunActive == ~postedWhileActive

\* C5: within a run, process_function_call is performed at most once per
\* tool call identifier, also when successive polls see requires_action with
\* the same pending tool calls, so one requested event makes one insert.
C5_ToolCallProcessedOnce ==
    \A id \in DOMAIN processed : processed[id] <= 1

\* C6: a poll that sees requires_action with n pending tool calls is answered
\* by exactly one tool-output batch, of n results, the i-th carrying the
\* identifier of the i-th pending call.
C6_OneBatchPerObservation ==
    lastStatus = "requires_action" =>
        /\ Len(Answer) = 1
        /\ Answer[1].run_id = run
        /\ Len(Answer[1].tool_outputs) = Len(pending)
        /\ \A i \in DOMAIN pending :
               Answer[1].tool_outputs[i].tool_call_id = pending[i].id

\* C7: once a poll of the call has seen failed, cancelled or expired, the
\* call has returned "Run failed", and it has made no poll, no tool-output
\* submission and no message-list read after that poll.
C7_FailedReturnsAtOnce ==
    lastStatus \in {"failed", "cancelled", "expired"} =>
        /\ pc = "idle"
        /\ outcome = "returned"
        /\ ret = <<"Run failed">>
        /\ nReads = 0
        /\ Answer = <<>>

\* the run expired after its tool outputs were submitted, and the call
\* returned the failure text
C7_Witness ==
    /\ lastStatus = "expired"
    /\ nPolls = 2
    /\ nSubmits = 1
    /\ outcome = "returned"
    /\ ret = <<"Run failed">>

\* C8: the message list is read at most once per call and only after a poll
\* saw completed; a call that returned after completed returns the content
\* of the newest message of the thread, and every other call that returned
\* returns "Run failed" without a read.
C8_ReplyOnlyWhenCompleted ==
    /\ nReads <= 1
    /\ nReads = 1 => lastStatus = "completed"
    /\ outcome = "returned" =>
           IF lastStatus = "completed"
           THEN /\ nReads = 1
                /\ ret = messages[Len(messages)].content
           ELSE /\ nReads = 0
                /\ ret = <<"Run failed">>

\* the second call returned the reply of its own run, the newest of four
\* messages
C8_Witness ==
    /\ nCalls = 2
    /\ outcome = "returned"
    /\ lastStatus = "completed"
    /\ nReads = 1
    /\ Len(messages) = 4
    /\ ret = <<"Reply of run ", "2">>

\* C10: handling a poll that sees requires_action with no pending tool call
\* makes no calendar request.
C10_EmptyActionNoInsert ==
    (lastStatus = "requires_action" /\ pending = <<>>) =>
        Len(inserts) = insertsAtPoll

\* an empty list of tool calls was answered with an empty batch
C10_Witness ==
    /\ lastStatus = "requires_action"
    /\ pending = <<>>
    /\ Len(Answer) = 1
    /\ Answer[1].tool_outputs = <<>>
    /\ inserts = <<>>

-----------------------------------------------------------------------------
(* Claims about authenticate, checked under SpecAuth.                      *)

LoadedInvalid == loaded.some /\ ~valid(loaded.v, authAt)

LoadedRefreshable ==
    loaded.some /\ expired(loaded.v, authAt) /\ loaded.v.refresh_token # 0

\* C11: whenever the stored session is present, not valid and has a refresh
\* token, authenticate refreshes it and runs no interactive flow; the flow
\* runs only when the session is absent or has no refresh token.
C11_RefreshWheneverInvalid ==
    authOutcome # "none" =>
        /\ (LoadedInvalid /\ loaded.v.refresh_token # 0) =>
               (refreshed = 1 /\ flowed = 0)
        /\ flowed = 1 => (~loaded.some \/ loaded.v.refresh_token = 0)

\* C11 as amended: whenever the stored session is present, expired and has a
\* refresh token, authenticate refreshes it and runs no interactive flow; the
\* flow runs only when the session is absent, or is not valid and either has
\* not expired or has no refresh token.
C11_RefreshWhenExpired ==
    authOutcome # "none" =>
        /\ LoadedRefreshable => (refreshed = 1 /\ flowed = 0)
        /\ flowed = 1 =>
               \/ ~loaded.some
               \/ (LoadedInvalid /\ ~LoadedRefreshable)

\* an expired session with a refresh token was refreshed without a flow
C11_Witness ==
    /\ authOutcome = "ok"
    /\ LoadedRefreshable
    /\ refreshed = 1
    /\ flowed = 0
    /\ creds.some
    /\ valid(creds.v, authAt)

\* C12: authenticate writes token.json exactly when a refresh or a flow of
\* that call succeeded, and then the file holds the new session; a failed
\* refresh or flow writes nothing and raises; a valid loaded session causes
\* no refresh, no flow and no write.
C12_WriteIffReauthenticated ==
    authOutcome # "none" =>
        /\ written \in {0, 1}
        /\ written = 1 <=> (authOutcome = "ok" /\ refreshed + flowed = 1)
        /\ written = 1 => /\ tokenFile = creds
                          /\ creds.some
                          /\ creds.v.token = nextToken - 1
                          /\ valid(creds.v, authAt)
        /\ written = 0 => tokenFile = fileBefore
        /\ authOutcome = "raised" => (written = 0 /\ refreshed + flowed = 1)
        /\ (loaded.some /\ valid(loaded.v, authAt)) =>
               (refreshed = 0 /\ flowed = 0 /\ written = 0
                /\ authOutcome = "ok")

\* the second start found the session expired, refreshed it and replaced the
\* file
C12_Witness ==
    /\ nStarts = 2
    /\ authOutcome = "ok"
    /\ refreshed = 1
    /\ written = 1
    /\ tokenFile = creds
    /\ tokenFile # fileBefore

-----------------------------------------------------------------------------
(* Termination of the run loop, checked under SpecFair.                    *)

\* the run of the current run_assistant call has been created
RunCreated == run > 0 /\ nCalls = run

\* the provider has ended the run of the current call, and the model can
\* follow one more poll
RunEnded ==
    /\ RunCreated
    /\ runs[run].status \in {"completed", "failed", "cancelled", "expired"}
    /\ polls < MaxPolls

Returned == RunCreated /\ outcome = "returned"

\* C13: once the provider has moved the run of a call to completed, failed,
\* cancelled or expired, the call eventually returns; and a call has
\* returned only after a poll of it saw one of these statuses.
C13_LoopTerminates ==
    /\ RunEnded ~> Returned
    /\ [](outcome = "returned" =>
              lastStatus \in {"completed", "failed", "cancelled", "expired"})

-----------------------------------------------------------------------------
(* Claims about the steps of run_assistant, checked under Spec.            *)

UserMessages == { i \in DOMAIN messages : messages[i].role = "user" }

\* C14: every run_assistant call posts one user message and then creates one
\* run, both before its first poll and none during polling, and every
\* message and run is on the one thread created at construction.
C14_OneMessageThenOneRun ==
    /\ thread = 1
    /\ \A i \in DOMAIN messages : messages[i].thread_id = thread
    /\ \A r \in DOMAIN runs : runs[r].thread_id = thread
    /\ Cardinality(UserMessages) = nCalls
    /\ Len(runs) = IF pc = "create_run" THEN nCalls - 1 ELSE nCalls
    /\ pc = "create_run" => nPolls = 0
    /\ pc \in {"poll", "list"} => run = nCalls
    /\ nPolls > 0 => run = nCalls

\* the second call has posted its message, created its run and polled it
C14_Witness ==
    /\ nCalls = 2
    /\ pc = "poll"
    /\ nPolls = 1
    /\ run = 2
    /\ Len(runs) = 2
    /\ Cardinality(UserMessages) = 2
    /\ messages[Len(messages)].thread_id = runs[1].thread_id

-----------------------------------------------------------------------------
(* Side effects of tool dispatch, checked under SpecDispatch.              *)

\* C15: a process_function_call call sends at most one insert request, and
\* none when the function name is unknown or a timestamp is missing or
\* cannot be parsed; an insert the provider rejects is sent once and
\* answered with the error text.
C15_AtMostOneInsertPerCall ==
    \A i \in DOMAIN dispatched :
        LET d == dispatched[i] IN
        /\ d.after - d.before \in {0, 1}
        /\ ~IsKnown(d) => d.after = d.before
        /\ (IsKnown(d) /\ IsJson(d) /\ BadTimes(d)) => d.after = d.before
        /\ (d.after > d.before /\ ~inserts[d.after].ok) =>
               /\ d.after = d.before + 1
               /\ ~d.raised
               /\ d.output = <<"Error creating event: ", "HttpError 400">>
        /\ (d.after > d.before /\ inserts[d.after].ok) =>
               /\ ~d.raised
               /\ Head(d.output) = "Event created: "

\* an event with a reversed time range was sent once, rejected, and answered
\* with the error text; the next call of the batch made its own insert
C15_Witness ==
    /\ Len(dispatched) = 2
    /\ dispatched[1].before = 0
    /\ dispatched[1].after = 1
    /\ ~inserts[1].ok
    /\ dispatched[1].output = <<"Error creating event: ", "HttpError 400">>
    /\ dispatched[2].after = 2
    /\ inserts[2].ok

-----------------------------------------------------------------------------
(* The turn of the loop that takes no branch, checked under Spec.          *)

\* the poll now being made retrieves a status the loop has no branch for
PollsOtherStatus ==
    /\ pc = "poll"
    /\ polls' = polls + 1
    /\ runs[run].status \notin
           {"completed", "requires_action", "failed", "cancelled", "expired"}

\* C16: a poll that sees any other status submits nothing, sends no calendar
\* request, posts and reads no message, returns nothing, and leaves the loop
\* about to poll the same run again.
C16_OtherStatusPollsAgain ==
    [][PollsOtherStatus =>
           /\ pc' = "poll"
           /\ run' = run
           /\ outcome' = outcome
           /\ ret' = ret
           /\ UNCHANGED <<inserts, submitted, nSubmits, messages, nextId,
                          nReads, runs, processed, thread>>]_vars

\* after one round of tool outputs the run was polled again while still in
\* progress, and the loop is waiting to poll it once more
C16_Witness ==
    /\ pc = "poll"
    /\ nPolls = 2
    /\ nSubmits = 1
    /\ lastStatus = "in_progress"
    /\ Answer = <<>>
    /\ Len(inserts) = insertsAtPoll
    /\ outcome = "none"

=============================================================================
